---- MODULE Spec2Model ----
(***************************************************************************)
(* Model of babushka-core/src/client/client_cmd.rs: the ClientCMD          *)
(* connection state machine, its lock and availability signal, the         *)
(* retry-driven connection-attempt procedure, the detached reconnect task  *)
(* and the send_packed_command / send_packed_commands dispatch paths.      *)
(***************************************************************************)
EXTENDS Integers, Sequences, FiniteSets, TLC

\* ---------------------------------------------------------------- bounds
NumCallers == 2        \* concurrent clones of the client
MaxRetries == 1        \* longest retry strategy (number of delays it yields)
MaxSess == 3           \* sessions the backend opens before it only refuses
PipeLen == 2           \* commands in the pipeline given to a batch dispatch

Callers == 1..NumCallers
Slots == 1..NumCallers \* spawned tasks alive at once

\* ------------------------------------------------------------- variables
VARIABLES
    mgr,        \* outcome of create_client: "creating" | "created" | "failed"
    createProc, \* the connection-attempt procedure run by create_client
    delays,     \* the delays the RetryStrategy iterator yields, in order
    state,      \* tag of ConnectionState: "None" before construction
    session,    \* the MultiplexedConnection held by Connected (0: none)
    signal,     \* connection_available_signal (TRUE: set)
    lock,       \* tokio Mutex on ConnectionState: 0 free, c caller, -t task
    nSess,      \* number of sessions opened so far (ids 1..nSess)
    severed,    \* sessions whose transport has been severed
    caller,     \* per caller: position and locals of its dispatch call
    task,       \* per slot: a spawned reconnect task
    dropSeen,   \* history: some send has reported a dropped connection
    dbRead      \* the value the last get_db() returned ({}: not called yet)

vars == <<mgr, createProc, delays, state, session, signal, lock, nSess,
          severed, caller, task, dropSeen, dbRead>>

\* ------------------------------------------------- retry strategy (input)
Strategy(n) == [i \in 1..n |-> 10 * i]

\* ------------------------------------------ connection-attempt procedure
\* try_create_multiplexed_connection: Retry::spawn(iterator, action).
\* st: "open" (awaiting the factory), "sleep" (awaiting a delay), "ret".
\* used: delays pulled from the iterator; tries: factory calls made;
\* conn: the session of Ok(conn), 0 otherwise; err: ordinal of the attempt
\* whose error is returned as Err, 0 otherwise.
NewProc == [st |-> "open", used |-> 0, tries |-> 0, slept |-> 0,
            conn |-> 0, err |-> 0]

NoProc == [st |-> "none", used |-> 0, tries |-> 0, slept |-> 0,
           conn |-> 0, err |-> 0]

\* the factory opened session s: stop
OpenOk(p, s) == [p EXCEPT !.st = "ret", !.tries = @ + 1, !.conn = s]

\* mutant: the procedure gives up at the first failure
OpenFailGiveUp(p, ds) ==
    [p EXCEPT !.st = "ret", !.tries = @ + 1, !.err = p.tries + 1]

\* the factory failed: pull the next delay, or give up with this error
OpenFail(p, ds) ==
    IF p.used < Len(ds)
    THEN [p EXCEPT !.st = "sleep", !.tries = @ + 1, !.used = @ + 1]
    ELSE [p EXCEPT !.st = "ret", !.tries = @ + 1, !.err = p.tries + 1]

\* the delay elapsed: retry
Wake(p, ds) == [p EXCEPT !.st = "open", !.slept = @ + ds[p.used]]

\* ------------------------------------------------------------------ Init
\* args: the <<offset, count>> a batch dispatch was called with, where they
\* are followed (<<>> otherwise); sent: the arguments of each send made so
\* far; resp: the responses of the Ok the dispatch returned; failedOn: the
\* session whose send reported the dropped connection, kept until the match
\* of reconnect(); opened: where the dispatch is observed (ObservedSendDone),
\* the number of sessions that had been opened when the dropped connection
\* was reported, kept until reconnect() returns
NewCaller == [pc |-> "idle", conn |-> 0, outer |-> FALSE,
              err1 |-> "none", nSend |-> 0, nReconn |-> 0, res |-> "none",
              args |-> <<>>, sent |-> <<>>, resp |-> <<>>,
              failedOn |-> 0, opened |-> 0]

NoTask == [pc |-> "none", p |-> NoProc]

Init ==
    /\ mgr = "creating"
    /\ createProc = NewProc
    /\ delays \in {Strategy(n) : n \in 0..MaxRetries}
    /\ state = "None"
    /\ session = 0
    /\ signal = TRUE
    /\ lock = 0
    /\ nSess = 0
    /\ severed = {}
    /\ caller = [c \in Callers |-> NewCaller]
    /\ task = [t \in Slots |-> NoTask]
    /\ dropSeen = FALSE
    /\ dbRead = {}

\* --------------------------------------------------------- create_client
CreateOpenOk ==
    /\ mgr = "creating" /\ createProc.st = "open"
    /\ nSess < MaxSess
    /\ nSess' = nSess + 1
    /\ createProc' = OpenOk(createProc, nSess + 1)
    /\ UNCHANGED <<mgr, delays, state, session, signal, lock, severed,
                   caller, task, dropSeen,
                   dbRead>>

CreateOpenFail ==
    /\ mgr = "creating" /\ createProc.st = "open"
    /\ createProc' = OpenFail(createProc, delays)
    /\ UNCHANGED <<mgr, delays, state, session, signal, lock, nSess,
                   severed, caller, task, dropSeen,
                   dbRead>>

CreateWake ==
    /\ mgr = "creating" /\ createProc.st = "sleep"
    /\ createProc' = Wake(createProc, delays)
    /\ UNCHANGED <<mgr, delays, state, session, signal, lock, nSess,
                   severed, caller, task, dropSeen,
                   dbRead>>

\* mutant: a failed connect still yields a manager, already Disconnected
CreateReturnAlways ==
    /\ mgr = "creating" /\ createProc.st = "ret"
    /\ mgr' = "created"
    /\ state' = IF createProc.conn # 0 THEN "Connected" ELSE "Disconnected"
    /\ session' = createProc.conn
    /\ createProc' = NoProc
    /\ UNCHANGED <<delays, signal, lock, nSess, severed,
                   caller, task, dropSeen,
                   dbRead>>

\* try_create_connection's `?` and create_client's `?` / Ok(Self{..}):
\* Ok moves the session into Connected; Err is returned as it is
CreateReturn ==
    /\ mgr = "creating" /\ createProc.st = "ret"
    /\ IF createProc.conn # 0
       THEN /\ mgr' = "created"
            /\ state' = "Connected"
            /\ session' = createProc.conn
            /\ createProc' = NoProc
       ELSE /\ mgr' = "failed"
            /\ UNCHANGED <<state, session, createProc>>
    /\ UNCHANGED <<delays, signal, lock, nSess, severed,
                   caller, task, dropSeen,
                   dbRead>>

\* ------------------------------------------------------------ transport
\* sessions some handle still refers to
Handles ==
    (IF state = "Connected" THEN {session} ELSE {})
    \cup {caller[c].conn : c \in Callers}
    \cup {task[t].p.conn : t \in Slots}

\* a severed session matters only while some handle refers to it
StillSevered(sev, hs) == sev \cap hs

Sever(s) ==
    /\ s \in (Handles \ {0}) \ severed
    /\ severed' = severed \cup {s}
    /\ UNCHANGED <<mgr, createProc, delays, state, session, signal, lock,
                   nSess, caller, task, dropSeen,
                   dbRead>>

\* results a timeout-bounded send on session s can produce
SendOutcomes(s) ==
    IF s \in severed THEN {"Dropped", "Timeout"}
                     ELSE {"Ok", "Timeout", "Upstream"}

\* connection.send_packed_commands(cmd, offset, count) answering Ok: one
\* response per command of the range, response i for command offset + i - 1
SessionSendBatch(off, cnt) == [i \in 1..cnt |-> off + i - 1]

\* the value of the Ok(val) of a send made with arguments a
SendValue(a) == IF a = <<>> THEN <<>> ELSE SessionSendBatch(a[1], a[2])

\* is_connection_dropped(): the classification of a send error
IsConnectionDropped(r) == r = "Dropped"

\* --------------------------------------------------------- get_connection
\* mutant: the send after reconnect() resends the first command only
GcReturnOkResendFirst(cl, s) ==
    [cl EXCEPT !.pc = "send", !.conn = s, !.nSend = @ + 1, !.outer = FALSE,
               !.sent = Append(@, IF cl.nSend = 1 /\ cl.args # <<>>
                                  THEN <<cl.args[1], 1>> ELSE cl.args)]

\* return Ok(connection.clone()) to the call site: the send follows, with
\* the arguments the dispatch was called with
GcReturnOk(cl, s) ==
    [cl EXCEPT !.pc = "send", !.conn = s, !.nSend = @ + 1, !.outer = FALSE,
               !.sent = Append(@, cl.args), !.opened = 0]

\* return get_disconnected_error(): `?` ends the dispatch
GcReturnErr(cl) ==
    [cl EXCEPT !.pc = "done", !.res = "ConnectionLost", !.outer = FALSE,
               !.opened = 0]

\* what the match on the guarded state makes of the caller
GcMatch(cl, st, s) ==
    CASE st = "Reconnecting" -> [cl EXCEPT !.pc = "gc_wait"]
      [] st = "Connected"    -> GcReturnOk(cl, s)
      [] OTHER               -> GcReturnErr(cl)

\* the scoped block of the loop: self.primary.lock().await, the match, and
\* the drop of the guard at the end of the block (no await in between, so
\* the block is one step once the lock is granted)
GcLock(c) ==
    /\ caller[c].pc = "gc_lock"
    /\ lock = 0
    /\ lock' = 0
    /\ caller' = [caller EXCEPT ![c] = GcMatch(@, state, session)]
    /\ UNCHANGED <<mgr, createProc, delays, state, session, signal, nSess,
                   severed, task, dropSeen,
                   dbRead>>

\* backend.connection_available_signal.wait().await, then loop
GcWait(c) ==
    /\ caller[c].pc = "gc_wait"
    /\ signal
    /\ caller' = [caller EXCEPT ![c].pc = "gc_lock"]
    /\ UNCHANGED <<mgr, createProc, delays, state, session, signal, lock,
                   nSess, severed, task, dropSeen,
                   dbRead>>

\* -------------------------------------------------------------- reconnect
RLock(c) ==
    /\ caller[c].pc = "r_lock"
    /\ lock = 0
    /\ lock' = c
    /\ caller' = [caller EXCEPT ![c].pc = "r_match"]
    /\ UNCHANGED <<mgr, createProc, delays, state, session, signal, nSess,
                   severed, task, dropSeen,
                   dbRead>>

\* mutants: a reconnect() that also starts over a running or failed episode
StartsReconnectAlsoReconnecting(st) == st \in {"Connected", "Reconnecting"}

StartsReconnectAlsoDisconnected(st) == st \in {"Connected", "Disconnected"}

\* does reconnect() start a new reconnection from this state?
StartsReconnect(st) == st = "Connected"

\* mutant: reconnect() starts nothing; it releases the lock and returns
\* whatever get_connection() finds
RMatchNeverStarts(c) ==
    /\ caller[c].pc = "r_match"
    /\ lock' = 0
    /\ caller' = [caller EXCEPT ![c].pc = "gc_lock", ![c].failedOn = 0]
    /\ UNCHANGED <<mgr, createProc, delays, state, session, signal, nSess,
                   severed, task, dropSeen, dbRead>>

\* match &*guard: Connected resets the signal; otherwise exit early into
\* get_connection() with the guard of this block still alive
RMatch(c) ==
    /\ caller[c].pc = "r_match"
    /\ IF StartsReconnect(state)
       THEN /\ signal' = FALSE
            /\ caller' = [caller EXCEPT ![c].pc = "r_set",
                                        ![c].failedOn = 0]
       ELSE /\ signal' = signal
            /\ caller' = [caller EXCEPT ![c].pc = "gc_lock",
                                        ![c].outer = TRUE,
                                        ![c].failedOn = 0]
    /\ UNCHANGED <<mgr, createProc, delays, state, session, lock, nSess,
                   severed, task, dropSeen,
                   dbRead>>

\* *guard = Reconnecting(backend); end of block drops the guard
RSet(c) ==
    /\ caller[c].pc = "r_set"
    /\ state' = "Reconnecting"
    /\ session' = 0
    /\ lock' = 0
    /\ caller' = [caller EXCEPT ![c].pc = "r_spawn"]
    /\ UNCHANGED <<mgr, createProc, delays, signal, nSess, task, dropSeen,
                   dbRead>>
    /\ severed' = StillSevered(severed, Handles')

\* task::spawn(..), then self.get_connection().await
FreeSlots == {t \in Slots : task[t].pc = "none"}

\* mutant: reconnect() goes on to get_connection() without spawning
RSpawnSkipped(c) ==
    /\ caller[c].pc = "r_spawn"
    /\ caller' = [caller EXCEPT ![c].pc = "gc_lock"]
    /\ UNCHANGED <<mgr, createProc, delays, state, session, signal, lock,
                   nSess, severed, task, dropSeen, dbRead>>

RSpawn(c) ==
    /\ caller[c].pc = "r_spawn"
    /\ FreeSlots # {}
    /\ LET t == CHOOSE u \in FreeSlots : \A v \in FreeSlots : u <= v
       IN task' = [task EXCEPT ![t] = [pc |-> "proc", p |-> NewProc]]
    /\ caller' = [caller EXCEPT ![c].pc = "gc_lock"]
    /\ UNCHANGED <<mgr, createProc, delays, state, session, signal, lock,
                   nSess, severed, dropSeen,
                   dbRead>>

\* ----------------------------------------------- spawned reconnect task
TaskOpenOk(t) ==
    /\ task[t].pc = "proc" /\ task[t].p.st = "open"
    /\ nSess < MaxSess
    /\ nSess' = nSess + 1
    /\ task' = [task EXCEPT ![t].p = OpenOk(@, nSess + 1)]
    /\ UNCHANGED <<mgr, createProc, delays, state, session, signal, lock,
                   severed, caller, dropSeen,
                   dbRead>>

TaskOpenFail(t) ==
    /\ task[t].pc = "proc" /\ task[t].p.st = "open"
    /\ task' = [task EXCEPT ![t].p = OpenFail(@, delays)]
    /\ UNCHANGED <<mgr, createProc, delays, state, session, signal, lock,
                   nSess, severed, caller, dropSeen,
                   dbRead>>

TaskWake(t) ==
    /\ task[t].pc = "proc" /\ task[t].p.st = "sleep"
    /\ task' = [task EXCEPT ![t].p = Wake(@, delays)]
    /\ UNCHANGED <<mgr, createProc, delays, state, session, signal, lock,
                   nSess, severed, caller, dropSeen,
                   dbRead>>

\* clone.primary.lock().await
TaskLock(t) ==
    /\ task[t].pc = "proc" /\ task[t].p.st = "ret"
    /\ lock = 0
    /\ lock' = -t
    /\ task' = [task EXCEPT ![t].pc = "set"]
    /\ UNCHANGED <<mgr, createProc, delays, state, session, signal, nSess,
                   severed, caller, dropSeen,
                   dbRead>>

\* mutant: the task commits without setting the signal
TaskSetSkipped(t) ==
    /\ task[t].pc = "set"
    /\ task' = [task EXCEPT ![t].pc = "commit"]
    /\ UNCHANGED <<mgr, createProc, delays, state, session, signal, lock,
                   nSess, severed, caller, dropSeen,
                   dbRead>>

\* backend.connection_available_signal.set()
TaskSet(t) ==
    /\ task[t].pc = "set"
    /\ signal' = TRUE
    /\ task' = [task EXCEPT ![t].pc = "commit"]
    /\ UNCHANGED <<mgr, createProc, delays, state, session, lock, nSess,
                   severed, caller, dropSeen,
                   dbRead>>

\* *guard = Connected(..) or Disconnected; the task ends, guard dropped
TaskCommit(t) ==
    /\ task[t].pc = "commit"
    /\ IF task[t].p.conn # 0
       THEN /\ state' = "Connected"
            /\ session' = task[t].p.conn
       ELSE /\ state' = "Disconnected"
            /\ session' = 0
    /\ lock' = 0
    /\ task' = [task EXCEPT ![t] = NoTask]
    /\ UNCHANGED <<mgr, createProc, delays, signal, nSess, severed, caller, dropSeen,
                   dbRead>>

\* ------------------------------ send_packed_command / send_packed_commands
\* send_packed_command ("single") and send_packed_commands ("batch") have
\* the same control flow around their send
Kinds == {"single", "batch"}

\* a clone of the client starts a dispatch: self.get_connection().await?
Start(c, k) ==
    /\ mgr = "created"
    /\ caller[c].pc = "idle"
    /\ k \in Kinds
    /\ caller' = [caller EXCEPT ![c].pc = "gc_lock"]
    /\ UNCHANGED <<mgr, createProc, delays, state, session, signal, lock,
                   nSess, severed, task, dropSeen,
                   dbRead>>

\* the ranges [offset, offset + count) of a pipeline of PipeLen commands
Ranges ==
    {<<off, cnt>> : off \in 0..(PipeLen - 1), cnt \in 1..PipeLen} \cap
    {a \in (0..PipeLen) \X (0..PipeLen) : a[1] + a[2] <= PipeLen}

\* send_packed_commands(cmd, offset, count), its arguments followed
StartBatch(c, a) ==
    /\ mgr = "created"
    /\ caller[c].pc = "idle"
    /\ a \in Ranges
    /\ caller' = [caller EXCEPT ![c].pc = "gc_lock", ![c].args = a]
    /\ UNCHANGED <<mgr, createProc, delays, state, session, signal, lock,
                   nSess, severed, task, dropSeen, dbRead>>

\* mutant: every dropped-connection failure reconnects and retries again
AfterSendRetryAgain(cl, r) ==
    IF IsConnectionDropped(r)
    THEN [cl EXCEPT !.pc = "r_lock", !.err1 = r, !.conn = 0,
                    !.nReconn = @ + 1]
    ELSE [cl EXCEPT !.pc = "done", !.res = r, !.conn = 0,
                    !.err1 = IF cl.nSend = 1 THEN r ELSE @]

\* mutant: the first send is retried after any error, not only a drop
AfterSendRetryAnyError(cl, r) ==
    IF cl.nSend = 1 /\ r # "Ok"
    THEN [cl EXCEPT !.pc = "r_lock", !.err1 = r, !.conn = 0,
                    !.nReconn = @ + 1]
    ELSE [cl EXCEPT !.pc = "done", !.res = r, !.conn = 0,
                    !.err1 = IF cl.nSend = 1 THEN r ELSE @]

\* the match on the result of a send: what the call does next
AfterSend(cl, r) ==
    IF cl.nSend = 1
    THEN CASE r = "Ok" ->
                [cl EXCEPT !.pc = "done", !.res = r, !.err1 = r, !.conn = 0,
                           !.resp = SendValue(cl.sent[1])]
           [] IsConnectionDropped(r) ->
                [cl EXCEPT !.pc = "r_lock", !.err1 = r, !.conn = 0,
                           !.nReconn = @ + 1,
                           !.failedOn = cl.conn]
           [] OTHER ->
                [cl EXCEPT !.pc = "done", !.res = r, !.err1 = r, !.conn = 0]
    ELSE [cl EXCEPT !.pc = "done", !.res = r, !.conn = 0,
                    !.resp = IF r = "Ok" THEN SendValue(cl.sent[2]) ELSE <<>>]

\* send_command / send_commands completes with outcome r
SendDone(c, r) ==
    /\ caller[c].pc = "send"
    /\ r \in SendOutcomes(caller[c].conn)
    /\ caller' = [caller EXCEPT ![c] = AfterSend(@, r)]
    /\ dropSeen' = (dropSeen \/ IsConnectionDropped(r))
    /\ UNCHANGED <<mgr, createProc, delays, state, session, signal, lock,
                   nSess, task,
                   dbRead>>
    /\ severed' = StillSevered(severed, Handles')

\* SendDone, with the number of sessions opened so far noted when the send
\* reports a dropped connection and reconnect() is about to be called
ObservedSendDone(c, r) ==
    /\ caller[c].pc = "send"
    /\ r \in SendOutcomes(caller[c].conn)
    /\ LET cl == AfterSend(caller[c], r)
       IN caller' = [caller EXCEPT ![c] =
                        IF cl.pc = "r_lock" THEN [cl EXCEPT !.opened = nSess]
                                            ELSE cl]
    /\ dropSeen' = (dropSeen \/ IsConnectionDropped(r))
    /\ UNCHANGED <<mgr, createProc, delays, state, session, signal, lock,
                   nSess, task, dbRead>>
    /\ severed' = StillSevered(severed, Handles')

\* the dispatch future is dropped at one of its awaits; its locals, and
\* the guard if it holds one, are dropped with it
SuspensionPoints == {"gc_lock", "gc_wait", "send", "r_lock"}

Cancel(c) ==
    /\ caller[c].pc \in SuspensionPoints
    /\ caller' = [caller EXCEPT ![c] = NewCaller]
    /\ lock' = IF caller[c].outer THEN 0 ELSE lock
    /\ UNCHANGED <<mgr, createProc, delays, state, session, signal, nSess,
                   task, dropSeen,
                   dbRead>>
    /\ severed' = StillSevered(severed, Handles')

\* the clone is used for its next dispatch
Restart(c) ==
    /\ caller[c].pc = "done"
    /\ caller' = [caller EXCEPT ![c] = NewCaller]
    /\ UNCHANGED <<mgr, createProc, delays, state, session, signal, lock,
                   nSess, severed, task, dropSeen,
                   dbRead>>

\* ---------------------------------------------------------------- get_db
\* connection.get_db(): the index in the connection info the session was
\* opened with, which is the same for every session of one client
SessionDb(s) == 0

\* match &*guard of get_db
GetDbResult(st, s) == IF st = "Connected" THEN SessionDb(s) ELSE -1

\* get_db is synchronous: self.primary.blocking_lock() parks the calling
\* thread until the lock is free, then the match, then the guard is dropped
GetDb ==
    /\ mgr = "created"
    /\ lock = 0
    /\ dbRead' = {GetDbResult(state, session)}
    /\ UNCHANGED <<mgr, createProc, delays, state, session, signal, lock,
                   nSess, severed, caller, task, dropSeen>>

\* ------------------------------------------------------------------ Next
CallerStep(c) ==
    \/ GcLock(c) \/ GcWait(c)
    \/ RLock(c) \/ RMatch(c) \/ RSet(c) \/ RSpawn(c)
    \/ \E r \in {"Ok", "Dropped", "Timeout", "Upstream"} : SendDone(c, r)

TaskStep(t) ==
    \/ TaskOpenOk(t) \/ TaskOpenFail(t) \/ TaskWake(t)
    \/ TaskLock(t) \/ TaskSet(t) \/ TaskCommit(t)

CreateStep == CreateOpenOk \/ CreateOpenFail \/ CreateWake \/ CreateReturn

Next ==
    \/ CreateStep
    \/ \E c \in Callers : \E k \in Kinds : Start(c, k)
    \/ \E c \in Callers : CallerStep(c)
    \/ \E t \in Slots : TaskStep(t)
    \/ \E c \in Callers : Cancel(c)
    \/ \E c \in Callers : Restart(c)
    \/ \E s \in 1..nSess : Sever(s)

Spec == Init /\ [][Next]_vars

\* the asynchronous operations together with the synchronous get_db, which
\* any thread may call at any time on a constructed client
DbNext == Next \/ GetDb

DbSpec == Init /\ [][DbNext]_vars

\* Scheduling: the runtime polls every ready future and every spawned task
\* (weak fairness); the tokio Mutex grants the lock in FIFO order, so a
\* waiter gets it if it is free again and again (strong fairness); the
\* factory call and the timeout-bounded send return. Starting, cancelling
\* and severing are up to the environment.
CallerProgress(c) ==
    \/ GcWait(c) \/ RMatch(c) \/ RSet(c) \/ RSpawn(c)
    \/ \E r \in {"Ok", "Dropped", "Timeout", "Upstream"} : SendDone(c, r)

TaskProgress(t) ==
    \/ TaskOpenOk(t) \/ TaskOpenFail(t) \/ TaskWake(t)
    \/ TaskSet(t) \/ TaskCommit(t)

Fairness ==
    /\ WF_vars(CreateStep)
    /\ \A c \in Callers :
          /\ WF_vars(CallerProgress(c))
          /\ SF_vars(GcLock(c))
          /\ SF_vars(RLock(c))
    /\ \A t \in Slots :
          /\ WF_vars(TaskProgress(t))
          /\ SF_vars(TaskLock(t))

FairSpec == Spec /\ Fairness

\* The scenario of two racing sends on a severed transport: the manager
\* connects, both callers are sending on session 1 when it is severed,
\* both sends fail with a dropped connection, the backend opens a new
\* session at the first try, nothing else fails and nobody is cancelled.
ScSever ==
    /\ \A c \in Callers : caller[c].pc = "send" /\ caller[c].conn = 1
    /\ Sever(1)

ScSend(c) ==
    \E r \in {"Ok", "Dropped"} :
        /\ (caller[c].nSend = 1) = IsConnectionDropped(r)
        /\ SendDone(c, r)

ScCaller(c) ==
    \/ Start(c, "single") \/ GcLock(c) \/ GcWait(c)
    \/ RLock(c) \/ RMatch(c) \/ RSet(c) \/ RSpawn(c) \/ ScSend(c)

ScTask(t) == TaskOpenOk(t) \/ TaskLock(t) \/ TaskSet(t) \/ TaskCommit(t)

ScenarioNext ==
    \/ CreateOpenOk
    \/ CreateReturn
    \/ ScSever
    \/ \E c \in Callers : ScCaller(c)
    \/ \E t \in Slots : ScTask(t)

ScenarioFairness ==
    /\ WF_vars(CreateOpenOk \/ CreateReturn \/ ScSever)
    /\ \A c \in Callers :
          /\ WF_vars(Start(c, "single") \/ GcWait(c) \/ RMatch(c)
                        \/ RSet(c) \/ RSpawn(c) \/ ScSend(c))
          /\ SF_vars(GcLock(c))
          /\ SF_vars(RLock(c))
    /\ \A t \in Slots :
          /\ WF_vars(TaskOpenOk(t) \/ TaskSet(t) \/ TaskCommit(t))
          /\ SF_vars(TaskLock(t))

ScenarioSpec == Init /\ [][ScenarioNext]_vars /\ ScenarioFairness

\* The connection-attempt procedure under strategies of up to
\* MaxRetries + 1 delays: construction, then dispatches that are neither
\* cancelled nor followed by another one on the same clone.
ProcInit ==
    /\ mgr = "creating"
    /\ createProc = NewProc
    /\ delays \in {Strategy(n) : n \in 0..(MaxRetries + 1)}
    /\ state = "None"
    /\ session = 0
    /\ signal = TRUE
    /\ lock = 0
    /\ nSess = 0
    /\ severed = {}
    /\ caller = [c \in Callers |-> NewCaller]
    /\ task = [t \in Slots |-> NoTask]
    /\ dropSeen = FALSE
    /\ dbRead = {}

ProcNext ==
    \/ CreateStep
    \/ \E c \in Callers : \E k \in Kinds : Start(c, k)
    \/ \E c \in Callers : CallerStep(c)
    \/ \E t \in Slots : TaskStep(t)
    \/ \E s \in 1..nSess : Sever(s)

ProcSpec == ProcInit /\ [][ProcNext]_vars

\* the dispatch that holds the lock across its get_connection() is dropped,
\* which releases the lock
CancelHolder(c) ==
    /\ caller[c].outer
    /\ Cancel(c)

\* The dispatches observed: each send notes how many sessions had been
\* opened when it reported a dropped connection; a dispatch is cancelled
\* only where that releases the lock, and a clone dispatches again only
\* after that.
ObservedNext ==
    \/ CreateStep
    \/ \E c \in Callers : \E k \in Kinds : Start(c, k)
    \/ \E c \in Callers :
          \/ GcLock(c) \/ GcWait(c)
          \/ RLock(c) \/ RMatch(c) \/ RSet(c) \/ RSpawn(c)
          \/ \E r \in {"Ok", "Dropped", "Timeout", "Upstream"} :
                ObservedSendDone(c, r)
    \/ \E c \in Callers : CancelHolder(c)
    \/ \E t \in Slots : TaskStep(t)
    \/ \E s \in 1..nSess : Sever(s)

ObservedSpec == Init /\ [][ObservedNext]_vars

\* One batch dispatch with its arguments followed, over any range of the
\* pipeline, among the dispatches of the other clones; each clone makes one
\* call and no call is cancelled.
FollowBatch(c, a) ==
    /\ \A d \in Callers : caller[d].args = <<>>
    /\ StartBatch(c, a)

BatchNext ==
    \/ CreateStep
    \/ \E c \in Callers : \E a \in Ranges : FollowBatch(c, a)
    \/ \E c \in Callers : \E k \in Kinds : Start(c, k)
    \/ \E c \in Callers : CallerStep(c)
    \/ \E t \in Slots : TaskStep(t)
    \/ \E s \in 1..nSess : Sever(s)

BatchSpec == Init /\ [][BatchNext]_vars

\* ------------------------------------------------------------ the claims
InFlight == {t \in Slots : task[t].pc # "none"}

\* C1: at most one connection-attempt procedure spawned by reconnect() is
\* in flight (spawned, result not yet committed) at any time.
C1_AtMostOneAttempt == Cardinality(InFlight) <= 1

\* two callers have both called reconnect() after a drop, the second one
\* while the first one's attempt is in flight
C1_Witness ==
    \E a, b \in Callers :
        /\ a # b
        /\ caller[a].nReconn = 1 /\ caller[a].pc = "gc_wait"
        /\ caller[b].nReconn = 1 /\ caller[b].outer
        /\ Cardinality(InFlight) = 1

\* C2: once the state is Disconnected it stays Disconnected, and no step
\* of any operation starts a connection attempt or opens a session.
C2_DisconnectedTerminal ==
    [][state = "Disconnected" =>
          /\ state' = "Disconnected"
          /\ task' = task
          /\ nSess' = nSess
          /\ createProc' = createProc]_vars

\* on a Disconnected manager, one caller's reconnect() has run its match
\* and a later dispatch has got ConnectionLost from get_connection()
C2_Witness ==
    /\ state = "Disconnected"
    /\ \E a, b \in Callers :
          /\ caller[a].outer
          /\ caller[b].pc = "done" /\ caller[b].res = "ConnectionLost"
          /\ caller[b].nSend = 0

\* a spawned attempt has exhausted its retry sequence
Exhausted ==
    \E t \in Slots : task[t].pc # "none" /\ task[t].p.st = "ret"
                                         /\ task[t].p.conn = 0

\* the dispatch of caller c is over: ConnectionLost without a retried
\* send, or its future was dropped
LostOrGone(c) ==
    \/ caller[c].pc = "idle"
    \/ /\ caller[c].pc = "done" /\ caller[c].res = "ConnectionLost"
       /\ caller[c].nSend < 2

\* C3: when a spawned attempt exhausts its retry sequence the state
\* becomes Disconnected, and every caller waiting on the signal in that
\* episode, the triggering caller included, gets ConnectionLost and
\* performs no retried send.
C3_ExhaustionYieldsConnectionLost ==
    /\ Exhausted ~> (state = "Disconnected")
    /\ \A c \in Callers :
          (Exhausted /\ caller[c].pc = "gc_wait") ~> LostOrGone(c)

\* C4 as stated: a call is never past 2 sends and 1 reconnect(), and a call
\* whose first send failed with a dropped connection ends having made
\* exactly one reconnect() call and exactly one retried send.
C4_ExactlyOneRetriedSend ==
    \A c \in Callers :
        /\ caller[c].nSend <= 2 /\ caller[c].nReconn <= 1
        /\ (caller[c].pc = "done" /\ caller[c].err1 = "Dropped")
              => (caller[c].nReconn = 1 /\ caller[c].nSend = 2)

\* C4 (amended): a call is never past 2 sends and 1 reconnect(); it calls
\* reconnect() exactly when its first send failed with a dropped
\* connection; it makes the retried send exactly when that reconnect()
\* returned a session, and then returns the retried send's result, a
\* second dropped-connection failure included; when reconnect() returned
\* ConnectionLost it returns that after its one send.
C4_AtMostOneRetriedSend ==
    \A c \in Callers :
        /\ caller[c].nSend <= 2 /\ caller[c].nReconn <= 1
        /\ (caller[c].nReconn = 1) = (caller[c].err1 = "Dropped")
        /\ caller[c].nSend = 2 => caller[c].nReconn = 1
        /\ (caller[c].pc = "done" /\ caller[c].err1 = "Dropped") =>
              \/ /\ caller[c].nSend = 2
                 /\ caller[c].res \in {"Ok", "Dropped", "Timeout", "Upstream"}
              \/ /\ caller[c].nSend = 1
                 /\ caller[c].res = "ConnectionLost"
        /\ (caller[c].pc = "done" /\ caller[c].res = "Dropped") =>
              caller[c].nSend = 2

\* a call has returned the dropped-connection failure of its retried send
C4_Witness ==
    \E c \in Callers :
        /\ caller[c].pc = "done" /\ caller[c].res = "Dropped"
        /\ caller[c].nSend = 2 /\ caller[c].nReconn = 1

\* C5: in the scenario of two sends racing on a severed session, exactly
\* one reconnection attempt is started (the factory is called once after
\* construction, so no third session exists) and both calls eventually
\* succeed.
C5_BothSucceedOneAttempt ==
    /\ [](nSess <= 2)
    /\ <>(\A c \in Callers : caller[c].pc = "done" /\ caller[c].res = "Ok")

NotDropped == {"Timeout", "Upstream"}

\* C6: a dispatch whose send fails with an error that is not a dropped
\* connection returns that error after that one send, without calling
\* reconnect(), and the step that returns it leaves the connection state,
\* the signal, the lock and the reconnect tasks as they were.
C6_NonDroppedPropagates ==
    /\ [](\A c \in Callers : caller[c].err1 \in NotDropped =>
             /\ caller[c].pc = "done" /\ caller[c].res = caller[c].err1
             /\ caller[c].nSend = 1 /\ caller[c].nReconn = 0)
    /\ [][\A c \in Callers :
             (caller[c].pc = "send" /\ caller'[c].pc = "done"
                /\ caller'[c].res \in NotDropped)
             => UNCHANGED <<state, session, signal, lock, task, nSess>>]_vars

\* one dispatch has returned a Timeout and another an upstream error after
\* a single send each, on a manager that is still Connected
C6_Witness ==
    /\ state = "Connected" /\ signal
    /\ \E a, b \in Callers :
          /\ caller[a].pc = "done" /\ caller[a].res = "Timeout"
          /\ caller[a].nSend = 1
          /\ caller[b].pc = "done" /\ caller[b].res = "Upstream"
          /\ caller[b].nSend = 1

\* C7: once the state is Reconnecting, the attempt commits: the state
\* becomes Connected or Disconnected and the signal is set.
C7_AttemptCommits ==
    (state = "Reconnecting") ~>
        (state \in {"Connected", "Disconnected"} /\ signal)

\* C8: whenever the lock is free the signal is unset exactly when the
\* state is Reconnecting; the signal is reset only by the reconnect() that
\* found Connected and goes on to store Reconnecting; it is set only by
\* the task holding the lock over a Reconnecting state, each task's set
\* turns an unset signal on, and the state leaves Reconnecting with the
\* signal set.
C8_SignalDiscipline ==
    /\ [](lock = 0 => (~signal <=> state = "Reconnecting"))
    /\ [][(signal /\ ~signal') =>
             /\ state = "Connected" /\ lock \in Callers
             /\ caller'[lock].pc = "r_set"]_vars
    /\ [][(state # "Reconnecting" /\ state' = "Reconnecting") =>
             (state = "Connected" /\ ~signal)]_vars
    /\ [][(~signal /\ signal') =>
             /\ state = "Reconnecting" /\ -lock \in Slots
             /\ task[-lock].pc = "set"]_vars
    /\ [][\A t \in Slots :
             (task[t].pc = "set" /\ task'[t].pc = "commit")
             => (~signal /\ signal')]_vars
    /\ [][(state = "Reconnecting" /\ state' # "Reconnecting") =>
             (signal /\ signal')]_vars

\* a second reconnection episode is under way: the signal, set at the end
\* of the first one, has been reset again
C8_Witness ==
    /\ state = "Reconnecting" /\ ~signal /\ lock = 0
    /\ nSess >= 2
    /\ InFlight # {}

\* C9: no manager exists while create_client runs or after it failed, a
\* failed create_client returns the error of the last attempt of the
\* exhausted retry sequence, and until some send has reported a dropped
\* connection the manager is Connected with the signal set, so that
\* get_connection() returns a session and no caller waits or gets
\* ConnectionLost.
C9_ConstructedConnected ==
    /\ mgr = "creating" =>
          (state = "None" /\ \A c \in Callers : caller[c].pc = "idle")
    /\ mgr = "failed" =>
          /\ state = "None" /\ \A c \in Callers : caller[c].pc = "idle"
          /\ createProc.conn = 0
          /\ createProc.tries = Len(delays) + 1
          /\ createProc.err = createProc.tries
    /\ mgr = "created" => state # "None"
    /\ (mgr = "created" /\ ~dropSeen) =>
          /\ state = "Connected" /\ session \in 1..nSess /\ signal
          /\ \A c \in Callers :
                /\ caller[c].pc # "gc_wait"
                /\ caller[c].res # "ConnectionLost"

\* before any failure, a dispatch on the fresh manager got its session and
\* succeeded, after a construction that needed a retry
C9_Witness ==
    /\ mgr = "created" /\ ~dropSeen /\ Len(delays) > 0
    /\ \E c \in Callers : caller[c].pc = "done" /\ caller[c].res = "Ok"

\* a dispatch entering get_connection() for its first send
Fresh(c) == caller[c].pc = "gc_lock" /\ caller[c].nSend = 0

\* C10: a dispatch that finds the state Disconnected returns
\* ConnectionLost from its first get_connection(): its next step ends it
\* with ConnectionLost and nothing sent, and it does get to that step.
C10_DisconnectedFailsAtOnce ==
    /\ [][\A c \in Callers :
             (state = "Disconnected" /\ Fresh(c) /\ caller'[c] # caller[c])
             => \/ caller'[c].pc = "idle"
                \/ /\ caller'[c].pc = "done"
                   /\ caller'[c].res = "ConnectionLost"
                   /\ caller'[c].nSend = 0]_vars
    /\ \A c \in Callers :
          (state = "Disconnected" /\ Fresh(c)) ~>
              (caller[c].pc \in {"done", "idle"})

\* C11: get_db() returns the session's database index when the state is
\* Connected and -1 when it is Reconnecting or Disconnected, and it can
\* complete in every state of a constructed manager, whoever holds the
\* lock.
C11_GetDbNeverBlocks ==
    /\ [][dbRead' # dbRead =>
             dbRead' = {IF state = "Connected" THEN 0 ELSE -1}]_vars
    /\ [](mgr = "created" => ENABLED GetDb)

\* C12: no caller and no reconnect task holds the state lock while it is
\* suspended (on the lock, on the signal, on a send, on the factory or on a
\* retry delay), and the connection state changes only in a step of the
\* holder of the lock.
C12_LockNotHeldAcrossSuspension ==
    /\ [](\A c \in Callers :
             lock = c => caller[c].pc \notin SuspensionPoints)
    /\ [](\A t \in Slots : lock = -t => task[t].pc \in {"set", "commit"})
    /\ [][(state # "None" /\ <<state, session>>' # <<state, session>>)
             => lock # 0]_vars

\* the responses to the commands of the range a, in request order
InRequestOrder(a) == [i \in 1..a[2] |-> a[1] + i - 1]

\* C13: every send of a batch dispatch, the resend after reconnect()
\* included, carries the offset and count the dispatch was called with; a
\* second send is made only after the first one failed with a dropped
\* connection and reconnect() was called once; there is no third send; and
\* a dispatch that returns Ok returns the responses of its range in request
\* order, on the first-success path and on the resend path.
C13_BatchResentWhole ==
    \A c \in Callers : caller[c].args # <<>> =>
        /\ Len(caller[c].sent) = caller[c].nSend /\ caller[c].nSend <= 2
        /\ \A i \in 1..Len(caller[c].sent) : caller[c].sent[i] = caller[c].args
        /\ caller[c].nSend = 2 =>
              (caller[c].err1 = "Dropped" /\ caller[c].nReconn = 1)
        /\ (caller[c].pc = "done" /\ caller[c].res = "Ok") =>
              caller[c].resp = InRequestOrder(caller[c].args)

\* a batch over the range [0, 2) has been resent after a reconnection and
\* has returned its two responses
C13_Witness ==
    \E c \in Callers :
        /\ caller[c].args = <<0, 2>> /\ caller[c].nSend = 2
        /\ caller[c].pc = "done" /\ caller[c].res = "Ok"
        /\ caller[c].resp = <<0, 1>>

\* C14: a caller performs the Connected -> Reconnecting transition only
\* over the session its own send failed on: a caller whose failure was on a
\* session that has been replaced since neither resets the signal nor
\* discards the newer session.
C14_OnlyOverFailedSession ==
    [][\A c \in Callers :
          (caller[c].pc = "r_match" /\ caller'[c].pc = "r_set")
          => session = caller[c].failedOn]_vars

\* a task is spawned only by the caller that stored Reconnecting, no step
\* of a caller that took the early exit of reconnect() touches a task, and
\* a task commits only over a Reconnecting state
SpawnAndCommitDiscipline ==
    /\ [][InFlight' \ InFlight # {} =>
             /\ state = "Reconnecting" /\ InFlight = {}
             /\ \E c \in Callers :
                   /\ caller[c].pc = "r_spawn" /\ ~caller[c].outer
                   /\ caller'[c].pc = "gc_lock"]_vars
    /\ [][\A c \in Callers :
             (caller[c].outer /\ caller'[c] # caller[c])
             => task' = task]_vars
    /\ [][\A t \in Slots :
             (task[t].pc = "commit" /\ task'[t].pc = "none")
             => (state = "Reconnecting" /\ state' # "Reconnecting")]_vars

\* C15 as stated: in every state the state is Reconnecting exactly when
\* one attempt is in flight; only the caller that stored Reconnecting
\* spawns; a task commits only over Reconnecting.
C15_ReconnectingIffOneAttempt ==
    /\ [](state = "Reconnecting" <=> Cardinality(InFlight) = 1)
    /\ SpawnAndCommitDiscipline

\* callers that have stored Reconnecting and released the lock, and have
\* not yet executed task::spawn
AboutToSpawn == {c \in Callers : caller[c].pc = "r_spawn"}

\* C15 (amended): the state is Reconnecting exactly when one attempt is in
\* flight or the caller that stored Reconnecting is about to spawn it; that
\* caller cannot be cancelled before it spawns, and its next step spawns;
\* only it spawns; a task commits only over Reconnecting.
C15_ReconnectingIffAttemptOrSpawner ==
    /\ [](state = "Reconnecting" <=>
             Cardinality(InFlight) + Cardinality(AboutToSpawn) = 1)
    /\ [][\A c \in AboutToSpawn :
             caller'[c] # caller[c] =>
                (caller'[c].pc = "gc_lock" /\ InFlight' \ InFlight # {})]_vars
    /\ SpawnAndCommitDiscipline

\* the state is Reconnecting, the lock is free again, and the caller that
\* made the transition has not spawned the attempt yet
C15_Witness ==
    /\ state = "Reconnecting" /\ lock = 0 /\ InFlight = {}
    /\ AboutToSpawn # {}

\* caller c is inside get_connection(); it has returned from it
InGetConnection(c) == caller[c].pc \in {"gc_lock", "gc_wait"}

Returned(c) == caller[c].pc \in {"send", "done", "idle"}

\* from some point on no send reports a dropped connection
FinitelyManyDrops ==
    <>[][\A c \in Callers :
            ~(caller[c].pc = "send" /\ caller'[c].pc = "r_lock")]_vars

\* C16: if only finitely many dropped-connection failures occur, every
\* get_connection() call, one made inside reconnect() and one waiting on
\* the signal included, eventually returns a session or ConnectionLost
\* (or its dispatch is dropped).
C16_NoWaiterStranded ==
    FinitelyManyDrops =>
        \A c \in Callers : InGetConnection(c) ~> Returned(c)

\* C17: the session reconnect() returns to a caller for its retried send
\* was opened after that caller's send reported the dropped connection
\* (sessions are numbered in the order they are opened), and so is never
\* the session the failure was on.
C17_RetriedSessionFresh ==
    /\ [](\A c \in Callers :
             caller[c].failedOn # 0 =>
                /\ caller[c].opened \in 1..nSess
                /\ caller[c].failedOn <= caller[c].opened)
    /\ [][\A c \in Callers :
             (caller[c].nSend = 1 /\ caller'[c].nSend = 2) =>
                /\ caller[c].opened > 0
                /\ caller'[c].conn > caller[c].opened]_vars

\* a caller whose send reported the dropped connection when two sessions
\* had been opened is about to be returned the third one by reconnect()
C17_Witness ==
    \E c \in Callers :
        /\ caller[c].pc = "gc_lock" /\ caller[c].nSend = 1
        /\ caller[c].opened = 2
        /\ state = "Connected" /\ session = 3 /\ lock = 0

\* the sum of the first k delays of ds
RECURSIVE SumDelays(_, _)
SumDelays(ds, k) == IF k = 0 THEN 0 ELSE SumDelays(ds, k - 1) + ds[k]

\* the runs of the connection-attempt procedure: create_client's and the
\* reconnect tasks'
Runs == {createProc} \cup {task[t].p : t \in Slots}

\* what C18 says of one run p under the delays ds
WellRun(p, ds) ==
    /\ p.used <= Len(ds) /\ p.tries <= Len(ds) + 1
    /\ p.st = "none" => p = NoProc
    /\ p.st = "open" => (p.tries = p.used /\ p.slept = SumDelays(ds, p.used)
                           /\ p.conn = 0 /\ p.err = 0)
    /\ p.st = "sleep" => (p.tries = p.used
                            /\ p.slept = SumDelays(ds, p.used - 1)
                            /\ p.conn = 0 /\ p.err = 0)
    /\ (p.st = "ret" /\ p.conn # 0) =>
          (p.tries = p.used + 1 /\ p.slept = SumDelays(ds, p.used)
             /\ p.err = 0)
    /\ (p.st = "ret" /\ p.conn = 0) =>
          (p.used = Len(ds) /\ p.tries = Len(ds) + 1
             /\ p.slept = SumDelays(ds, Len(ds)) /\ p.err = p.tries)

\* C18: a run under N delays makes at most N + 1 open attempts; after each
\* failed attempt but the last it sleeps the next delay of the sequence, in
\* order; it returns the session of its first successful attempt and makes
\* no attempt after it; it returns an error exactly when attempt N + 1 has
\* failed; create_client and every reconnect task run it from the start of
\* the same sequence.
C18_ProcedureBounded ==
    /\ [](\A p \in Runs : WellRun(p, delays))
    /\ [][delays' = delays]_vars
    /\ [][createProc.st = "ret" => createProc' \in {createProc, NoProc}]_vars
    /\ [][\A t \in Slots :
             /\ (task[t].pc = "none" /\ task'[t].pc # "none")
                   => task'[t] = [pc |-> "proc", p |-> NewProc]
             /\ (task[t].p.st = "ret" /\ task'[t].pc # "none")
                   => task'[t].p = task[t].p]_vars

\* with the delays [10, 20], a reconnect task has succeeded at its third
\* attempt after sleeping 10 and then 20
C18_Witness ==
    /\ delays = <<10, 20>> /\ mgr = "created"
    /\ \E t \in Slots :
          /\ task[t].p.st = "ret" /\ task[t].p.conn # 0
          /\ task[t].p.tries = 3 /\ task[t].p.slept = 30

====
